---- MODULE Spec2Model ----
(***************************************************************************)
(* A model of the retrieval core of DocumentSearchAssistant:               *)
(*   - the embedding generator of server/services/openai.ts with its       *)
(*     process-wide quota latch (specification Spec);                      *)
(*   - the in-memory vector index MemStorage of server/storage.ts with     *)
(*     its cosine search and related-document lookup, and the search       *)
(*     entry point of server/services/documentProcessor.ts                 *)
(*     (specification SpecIndex; SpecRelated for related-document          *)
(*     requests against a larger index; SpecStore for the three create     *)
(*     operations of the store);                                           *)
(*   - the chunker splitIntoChunks (specification SpecChunker);            *)
(*   - the ingestion pipeline processDocument and the search orchestrator  *)
(*     searchDocuments, interleaved at their awaits (specification         *)
(*     SpecPipeline; SpecOwners for documents of several users);           *)
(*   - the snippet of a search result, getDocumentSnippet (specification   *)
(*     SpecSnippet);                                                       *)
(*   - the embedding generators as functions: the local generator of       *)
(*     server/services/generateAI.ts, the provider module's fallback and   *)
(*     the provider's vector (specification SpecGenerators);               *)
(*   - the chat-completion services of the provider module, which share    *)
(*     the latch (specification SpecProvider).                             *)
(* Scores are exact reals dot / sqrt(den) or NaN; IEEE rounding is not     *)
(* modelled.                                                               *)
(***************************************************************************)
EXTENDS Integers, Sequences, FiniteSets, TLC

VARIABLES
    hasQuotaError,      \* openai.ts:11, the module-level latch
    calls,              \* the generateEmbedding invocations, one record each
    otherErrorHandled,  \* history: a non-quota provider failure has been absorbed
    documents,          \* MemStorage.documents, in insertion (= id) order
    chunks,             \* MemStorage.chunks, in insertion (= id) order
    lastSearch,         \* the most recent storage.searchDocuments invocation
    lastOp,             \* the most recent entry-point invocation and its outcome
    nextDocumentId,     \* MemStorage.documentId, the next document identifier
    nextChunkId,        \* MemStorage.chunkId
    nextSearchHistoryId,\* MemStorage.searchHistoryId
    searchHistory,      \* MemStorage.searchHistory, in insertion order
    jobs,               \* the processDocument invocations, one record each
    queries,            \* the searchDocuments invocations of the pipeline
    chunker,            \* a splitIntoChunks(text, maxChunkSize) invocation
    snippetCall,        \* a getDocumentSnippet(documentId, query) invocation
    generatorCall,      \* an invocation of one of the embedding generators
    completions         \* the invocations of the chat-completion services

vars == <<hasQuotaError, calls, otherErrorHandled, documents, chunks, lastSearch, lastOp,
          nextDocumentId, nextChunkId, nextSearchHistoryId, searchHistory, jobs, queries,
          chunker, snippetCall, generatorCall, completions>>

embedVars == <<hasQuotaError, calls, otherErrorHandled>>
indexVars == <<documents, chunks, lastSearch, lastOp>>
idVars == <<nextDocumentId, nextChunkId, nextSearchHistoryId>>
pipelineVars == <<jobs, queries>>
auxVars == <<snippetCall, generatorCall, completions>>

(***************************************************************************)
(* Bounds of the model.                                                    *)
(***************************************************************************)
MaxCalls == 2
MaxTextLen == 1

None == "none"

(***************************************************************************)
(* Embedding generator (server/services/openai.ts)                         *)
(***************************************************************************)
CallIds == 1..MaxCalls

\* Input texts: strings over a two-letter alphabet, as sequences of char codes.
Chars == {97, 98}
Texts == UNION {[1..n -> Chars] : n \in 0..MaxTextLen}

\* What the awaited embeddings.create request can do: resolve with an
\* embedding, resolve with no data (response.data[0] is undefined, a
\* TypeError inside the try block), or reject with an API error.
ProviderVectors == {<<1, 0>>}
ApiErrors ==
    { [code |-> "insufficient_quota", status |-> 429],
      [code |-> "rate_limit_exceeded", status |-> 429],
      [code |-> "insufficient_quota", status |-> 403],
      [code |-> "server_error", status |-> 500],
      [code |-> None, status |-> 0] }
TypeError == [code |-> None, status |-> 0]
NoError == [code |-> None, status |-> 0]
ProviderOutcomes ==
    {[kind |-> "ok", embedding |-> v, error |-> NoError] : v \in ProviderVectors}
    \cup {[kind |-> "nodata", embedding |-> <<>>, error |-> TypeError]}
    \cup {[kind |-> "rejected", embedding |-> <<>>, error |-> e] : e \in ApiErrors}
NoOutcome == [kind |-> "none", embedding |-> <<>>, error |-> NoError]

\* ToInt32(acc << 5) without leaving TLC's 32-bit integers.
Pow26 == 67108864
ShiftLeft5(acc) ==
    LET low == acc % (2 * Pow26)
    IN  IF low >= Pow26 THEN (low - 2 * Pow26) * 32 ELSE low * 32

RECURSIVE HashFrom(_, _, _)
HashFrom(text, i, acc) ==
    IF i > Len(text) THEN acc
    ELSE HashFrom(text, i + 1, (ShiftLeft5(acc) - acc) + text[i])

\* generateFakeEmbedding: a vector of FakeDim components, each a function of
\* the hash and the component index only; it is kept as the pair that
\* determines it.
FakeDim == 1536
generateFakeEmbedding(text) ==
    [path |-> "fallback", vector |-> <<>>, hash |-> HashFrom(text, 1, 0), dim |-> FakeDim]

\* response.data[0].embedding (openai.ts:30)
ProviderEmbedding(v) == [path |-> "provider", vector |-> v, hash |-> 0, dim |-> Len(v)]

NoResult == [path |-> "none", vector |-> <<>>, hash |-> 0, dim |-> 0]

\* openai.ts:35
IsQuotaErrorAnyStatus(error) == error.code = "insufficient_quota" \/ error.status >= 400
IsQuotaError(error) == error.code = "insufficient_quota" \/ error.status = 429

\* openai.ts:18, the guard that short-circuits to the fallback.
SkipsProviderNever(latch) == FALSE
SkipsProvider(latch) == latch

\* openai.ts:35-37, the latch after the catch block has run.
LatchAfterErrorToggle(latch, error) == IF IsQuotaError(error) THEN ~latch ELSE latch
LatchAfterErrorReset(latch, error) == IsQuotaError(error)
LatchAfterError(latch, error) == latch \/ IsQuotaError(error)

\* openai.ts:31-42, how the catch block ends the call.
CatchBlockRethrows(text, error) ==
    IF IsQuotaError(error)
    THEN [pc |-> "returned", result |-> generateFakeEmbedding(text)]
    ELSE [pc |-> "raised", result |-> NoResult]
CatchBlock(text, error) ==
    [pc |-> "returned", result |-> generateFakeEmbedding(text)]

IdleCall ==
    [pc |-> "idle", text |-> <<>>, degradedAtStart |-> FALSE, afterOtherError |-> FALSE,
     invoked |-> FALSE, outcome |-> NoOutcome, result |-> NoResult]

\* generateEmbedding up to its first await (openai.ts:16-28).
StartEmbedding(c, text) ==
    /\ calls[c].pc = "idle"
    /\ calls' = [calls EXCEPT ![c] =
          IF SkipsProvider(hasQuotaError)
          THEN [IdleCall EXCEPT !.pc = "returned", !.text = text,
                                !.degradedAtStart = hasQuotaError,
                                !.afterOtherError = otherErrorHandled,
                                !.result = generateFakeEmbedding(text)]
          ELSE [IdleCall EXCEPT !.pc = "awaiting", !.text = text,
                                !.degradedAtStart = hasQuotaError,
                                !.afterOtherError = otherErrorHandled,
                                !.invoked = TRUE]]
    /\ UNCHANGED <<hasQuotaError, otherErrorHandled>>

\* The provider request of call c settles and the call runs to its end
\* (openai.ts:30-42).
ProviderSettles(c, o) ==
    /\ calls[c].pc = "awaiting"
    /\ IF o.kind = "ok"
       THEN /\ calls' = [calls EXCEPT ![c].pc = "returned", ![c].outcome = o,
                                      ![c].result = ProviderEmbedding(o.embedding)]
            /\ UNCHANGED <<hasQuotaError, otherErrorHandled>>
       ELSE LET end == CatchBlock(calls[c].text, o.error)
            IN  /\ hasQuotaError' = LatchAfterError(hasQuotaError, o.error)
                /\ otherErrorHandled' = (otherErrorHandled \/ ~IsQuotaError(o.error))
                /\ calls' = [calls EXCEPT ![c].pc = end.pc, ![c].outcome = o,
                                          ![c].result = end.result]

(***************************************************************************)
(* Vector index (server/storage.ts, class MemStorage)                      *)
(***************************************************************************)
MaxDocs == 2
MaxChunks == 3
MaxLimit == 1
MaxSearches == 1
MaxHistory == 2

\* A JavaScript number: an integer or NaN.
Number(v) == [nan |-> FALSE, val |-> v]
NaN == [nan |-> TRUE, val |-> 0]

\* The embedding field of a chunk: a vector, or absent.
Embedded(v) == [present |-> TRUE, vector |-> v]
NoEmbedding == [present |-> FALSE, vector |-> <<>>]

\* What Map.get gives for a missing key.
Undefined == [id |-> 0, uploadedBy |-> 0]

\* The outcome of a call that threw, for a score and for a result list.
ThrownScore == [nan |-> FALSE, dot |-> 0, den |-> 0]
Thrown == [threw |-> TRUE, list |-> <<>>]
Returned(list) == [threw |-> FALSE, list |-> list]

\* Embeddings the generators hand to createChunk and to the search: the
\* two-component vectors stand for the provider module's 1536 components,
\* the one-component vector for the 128 components of the local generator
\* (server/services/generateAI.ts:19) that seeds the demo documents.
\* Generated embeddings are never all-zero, and every chunk is stored with
\* one (generateEmbedding does not throw).
Embeddings == {<<1, 0>>, <<-1, 0>>, <<1>>}

\* The demo user every route acts for (server/routes.ts, const userId = 1).
DemoUser == 1

\* Limits a caller can pass: integers of either sign and NaN (parseInt of a
\* non-numeric query parameter).
Limits == {Number(k) : k \in -2..MaxLimit} \cup {NaN}

\* Numbers over a positive common denominator: [num, den] stands for the
\* vector num / den.  Generated embeddings have den = 1.
Plain(v) == [num |-> [i \in 1..Len(v) |-> Number(v[i])], den |-> 1]

RECURSIVE SumFrom(_, _)
SumFrom(terms, i) == IF i > Len(terms) THEN 0 ELSE terms[i] + SumFrom(terms, i + 1)

NaNScore == [nan |-> TRUE, dot |-> 0, den |-> 0]
ZeroScore == [nan |-> FALSE, dot |-> 0, den |-> 1]

\* dotProduct / (mag1 * mag2) for dot = d / (c1*c2), mag1^2 = m1 / c1^2,
\* mag2^2 = m2 / c2^2 with integers d, m1, m2: the denominators cancel and
\* the quotient is d / sqrt(m1 * m2), kept as [dot |-> d, den |-> m1 * m2].
\* 0 / 0 is NaN; a NaN component makes every sum NaN.
Quotient(d, m1, m2) ==
    IF m1 * m2 = 0
    THEN NaNScore
    ELSE [nan |-> FALSE, dot |-> d, den |-> m1 * m2]

\* storage.ts:246-265
calculateCosineSimilarity(vec1, vec2) ==
    IF Len(vec1.num) # Len(vec2.num) THEN ThrownScore
    ELSE IF \E i \in 1..Len(vec1.num) : vec1.num[i].nan \/ vec2.num[i].nan
    THEN NaNScore
    ELSE LET n == Len(vec1.num)
             dot == [i \in 1..n |-> vec1.num[i].val * vec2.num[i].val]
             sq1 == [i \in 1..n |-> vec1.num[i].val * vec1.num[i].val]
             sq2 == [i \in 1..n |-> vec2.num[i].val * vec2.num[i].val]
         IN  Quotient(SumFrom(dot, 1), SumFrom(sq1, 1), SumFrom(sq2, 1))

\* The sign-carrying square of a score, as a fraction over den.
SignedSquare(s) == IF s.dot < 0 THEN 0 - s.dot * s.dot ELSE s.dot * s.dot

\* a < b, a = b on numbers; every comparison with NaN is false.
ScoreLess(a, b) ==
    /\ ~a.nan /\ ~b.nan
    /\ SignedSquare(a) * b.den < SignedSquare(b) * a.den
ScoreEq(a, b) ==
    /\ ~a.nan /\ ~b.nan
    /\ SignedSquare(a) * b.den = SignedSquare(b) * a.den
ScoreGeq(a, b) == ScoreLess(b, a) \/ ScoreEq(a, b)

\* (a, b) => b.score - a.score as Array.prototype.sort reads it: its sign,
\* with NaN read as +0.
CompareDescendingUnstable(a, b) ==
    IF ScoreLess(b.score, a.score) THEN -1 ELSE 1
CompareDescending(a, b) ==
    IF ScoreLess(a.score, b.score) THEN 1
    ELSE IF ScoreLess(b.score, a.score) THEN -1
    ELSE 0

\* Array.prototype.sort is stable: an element is placed behind every element
\* that does not compare greater than it.
RECURSIVE InsertStable(_, _)
InsertStable(sorted, x) ==
    IF sorted = <<>> THEN <<x>>
    ELSE LET last == sorted[Len(sorted)]
         IN  IF CompareDescending(last, x) > 0
             THEN Append(InsertStable(SubSeq(sorted, 1, Len(sorted) - 1), x), last)
             ELSE Append(sorted, x)

RECURSIVE SortFrom(_, _, _)
SortFrom(seq, i, sorted) ==
    IF i > Len(seq) THEN sorted
    ELSE SortFrom(seq, i + 1, InsertStable(sorted, seq[i]))

\* results.sort((a, b) => b.score - a.score), storage.ts:170
SortByScore(results) == SortFrom(results, 1, <<>>)

\* Array.prototype.slice(0, end)
Slice(seq, end) ==
    LET n == Len(seq)
        e == IF end.nan THEN 0
             ELSE IF end.val < 0 THEN (IF n + end.val < 0 THEN 0 ELSE n + end.val)
             ELSE IF end.val > n THEN n ELSE end.val
    IN  SubSeq(seq, 1, e)

\* storage.ts:160-165, the scan: one scored entry per chunk that has an
\* embedding, in Map (insertion) order; Thrown when a similarity throws.
RECURSIVE ScanFrom(_, _, _, _)
ScanFrom(index, i, embedding, results) ==
    IF i > Len(index) THEN Returned(results)
    ELSE IF ~index[i].embedding.present
    THEN ScanFrom(index, i + 1, embedding, results)
    ELSE LET score == calculateCosineSimilarity(embedding, Plain(index[i].embedding.vector))
         IN  IF score = ThrownScore THEN Thrown
             ELSE ScanFrom(index, i + 1, embedding,
                      Append(results, [documentId |-> index[i].documentId,
                                       score |-> score, chunkId |-> index[i].id]))

\* storage.ts:172, whether a sorted entry replaces the Map entry of its document.
Replaces(existing, result) == ScoreLess(existing.score, result.score)

\* storage.ts:168-175, the Map keyed by documentId, in insertion order; set()
\* on an existing key keeps the key's position.
RECURSIVE UniqueFrom(_, _, _)
UniqueFrom(sorted, i, unique) ==
    IF i > Len(sorted) THEN unique
    ELSE LET r == sorted[i]
             entry == [documentId |-> r.documentId, score |-> r.score]
             at == {j \in 1..Len(unique) : unique[j].documentId = r.documentId}
         IN  IF at = {}
             THEN UniqueFrom(sorted, i + 1, Append(unique, entry))
             ELSE LET j == CHOOSE j \in at : TRUE
                  IN  IF Replaces(unique[j], r)
                      THEN UniqueFrom(sorted, i + 1, [unique EXCEPT ![j] = entry])
                      ELSE UniqueFrom(sorted, i + 1, unique)

\* storage.ts:177
Truncate(unique, limit) == Slice(unique, limit)

\* storage.ts:157-175, searchDocuments up to its return statement: the
\* values of uniqueResults, or Thrown.
UniqueResults(index, embedding) ==
    LET scan == ScanFrom(index, 1, embedding, <<>>)
    IN  IF scan.threw THEN Thrown
        ELSE Returned(UniqueFrom(SortByScore(scan.list), 1, <<>>))

\* storage.ts:177, the return statement.
SearchReturn(unique, limit) ==
    IF unique.threw THEN Thrown ELSE Returned(Truncate(unique.list, limit))

\* storage.ts:156-178, MemStorage.searchDocuments
StorageSearch(index, embedding, limit) ==
    SearchReturn(UniqueResults(index, embedding), limit)

NoSearch == [query |-> Plain(<<>>), limit |-> Number(0), outcome |-> "none", result |-> <<>>]
NoOp == [op |-> "none", documentId |-> 0, limit |-> Number(0), outcome |-> "none",
         result |-> <<>>]

SearchRecord(embedding, limit, out) ==
    [query |-> embedding, limit |-> limit,
     outcome |-> IF out.threw THEN "threw" ELSE "returned",
     result |-> out.list]

\* A Map of records keyed by id, in insertion order: set() on a key the Map
\* holds replaces the value in place, on a new key it appends.
MapSet(map, record) ==
    LET at == {j \in 1..Len(map) : map[j].id = record.id}
    IN  IF at = {} THEN Append(map, record)
        ELSE [map EXCEPT ![CHOOSE j \in at : TRUE] = record]

\* this.documentId++, this.chunkId++, this.searchHistoryId++ (storage.ts:112,
\* 130, 149): the counter after the identifier has been taken.
NextIdStuck(counter) == counter
NextId(counter) == counter + 1

\* storage.ts:94-96 and 123-127
getDocument(id) ==
    LET at == {j \in 1..Len(documents) : documents[j].id = id}
    IN  IF at = {} THEN Undefined ELSE documents[CHOOSE j \in at : TRUE]
getChunksByDocument(documentId) ==
    SelectSeq(chunks, LAMBDA c : c.documentId = documentId)

\* storage.ts:113 and 131, the records the Maps hold.
DocumentRecord(id, userId) == [id |-> id, uploadedBy |-> userId]
ChunkRecord(id, insertChunk) ==
    [id |-> id, documentId |-> insertChunk.documentId,
     chunkIndex |-> insertChunk.chunkIndex, chunkText |-> insertChunk.chunkText,
     embedding |-> insertChunk.embedding]

\* storage.ts:111-116
createDocument(userId) ==
    /\ lastOp = NoOp
    /\ Len(documents) < MaxDocs
    /\ documents' = MapSet(documents, DocumentRecord(nextDocumentId, userId))
    /\ nextDocumentId' = NextId(nextDocumentId)
    /\ lastSearch' = NoSearch
    /\ lastOp' = NoOp
    /\ UNCHANGED <<chunks, nextChunkId, nextSearchHistoryId, searchHistory>>

\* The chunk a caller builds next for a document (documentProcessor.ts:48-53,
\* routes.ts:463-468): the next ordinal of that document, a non-empty text.
InsertChunk(documentId, embedding) ==
    [documentId |-> documentId, chunkIndex |-> Len(getChunksByDocument(documentId)),
     chunkText |-> <<97>>, embedding |-> embedding]

\* storage.ts:129-134, called as processDocument and addDemoDocuments call
\* it: for a document that exists, with the next ordinal of that document.
createChunk(documentId, embedding) ==
    /\ lastOp = NoOp
    /\ Len(chunks) < MaxChunks
    /\ getDocument(documentId) # Undefined
    /\ chunks' = MapSet(chunks, ChunkRecord(nextChunkId, InsertChunk(documentId, embedding)))
    /\ nextChunkId' = NextId(nextChunkId)
    /\ lastSearch' = NoSearch
    /\ lastOp' = NoOp
    /\ UNCHANGED <<documents, nextDocumentId, nextSearchHistoryId, searchHistory>>

\* storage.ts:200, the chunks whose embedding enters the average.
HasValidEmbedding(c) == c.embedding.present /\ Len(c.embedding.vector) > 0

\* number + number, undefined + number (storage.ts:210)
Plus(a, b) == IF a.nan \/ b.nan THEN NaN ELSE Number(a.val + b.val)

\* storage.ts:201-211: the accumulator takes the first embedding's length;
\* a longer embedding writes past its end, where undefined + x is NaN.
AddEmbedding(acc, e) ==
    LET base == IF acc = <<>> THEN [i \in 1..Len(e) |-> Number(0)] ELSE acc
        n == IF Len(e) > Len(base) THEN Len(e) ELSE Len(base)
    IN  [i \in 1..n |->
            IF i > Len(e) THEN base[i]
            ELSE IF i > Len(base) THEN NaN
            ELSE Plus(base[i], Number(e[i]))]

RECURSIVE EmbeddingSumFrom(_, _, _)
EmbeddingSumFrom(docChunks, i, acc) ==
    IF i > Len(docChunks) THEN acc
    ELSE IF HasValidEmbedding(docChunks[i])
    THEN EmbeddingSumFrom(docChunks, i + 1, AddEmbedding(acc, docChunks[i].embedding.vector))
    ELSE EmbeddingSumFrom(docChunks, i + 1, acc)

\* storage.ts:196-224, the mean vector: the component sums over the count.
DocumentEmbedding(docChunks) ==
    [num |-> EmbeddingSumFrom(docChunks, 1, <<>>),
     den |-> Len(SelectSeq(docChunks, HasValidEmbedding))]

\* limit + 1 (storage.ts:227)
PlusOne(limit) == Plus(limit, Number(1))

\* storage.ts:232, the filter that drops the source document.
KeepsEveryResult(result, documentId) == TRUE
KeepsResult(result, documentId) == result.documentId # documentId

\* storage.ts:230-238
RelatedFromResults(results, documentId, limit) ==
    LET others == SelectSeq(results, LAMBDA r : KeepsResult(r, documentId))
        docs == [i \in 1..Len(Slice(others, limit)) |-> getDocument(others[i].documentId)]
    IN  SelectSeq(docs, LAMBDA d : d # Undefined)

\* storage.ts:184-224, findRelatedDocuments up to its search: the mean
\* vector it will search for, or the early return of an empty list.
RelatedQuery(documentId) ==
    LET docChunks == getChunksByDocument(documentId)
    IN  IF getDocument(documentId) = Undefined THEN [early |-> TRUE, q |-> Plain(<<>>)]
        ELSE IF Len(docChunks) = 0 THEN [early |-> TRUE, q |-> Plain(<<>>)]
        ELSE IF Len(SelectSeq(docChunks, HasValidEmbedding)) = 0
        THEN [early |-> TRUE, q |-> Plain(<<>>)]
        ELSE [early |-> FALSE, q |-> DocumentEmbedding(docChunks)]

\* storage.ts:226-242: the inner search (unique holds its uniqueResults) and
\* the list returned; the catch block turns a throw into an empty list.
RelatedDocuments(documentId, limit, query, unique) ==
    IF query.early THEN [search |-> NoSearch, docs |-> <<>>]
    ELSE LET out == SearchReturn(unique, PlusOne(limit))
         IN  [search |-> SearchRecord(query.q, PlusOne(limit), out),
              docs |-> IF out.threw THEN <<>>
                       ELSE RelatedFromResults(out.list, documentId, limit)]

\* storage.ts:181-243, MemStorage.findRelatedDocuments(documentId, limit)
findRelatedDocuments(documentId) ==
    /\ lastOp = NoOp
    /\ \E query \in {RelatedQuery(documentId)} :
       \E unique \in {IF query.early THEN Thrown ELSE UniqueResults(chunks, query.q)} :
       \E limit \in Limits :
       \E r \in {RelatedDocuments(documentId, limit, query, unique)} :
          /\ lastSearch' = r.search
          /\ lastOp' = [op |-> "related", documentId |-> documentId, limit |-> limit,
                        outcome |-> "returned",
                        result |-> [i \in 1..Len(r.docs) |-> r.docs[i].id]]
    /\ UNCHANGED <<documents, chunks, idVars, searchHistory>>

\* documentProcessor.ts:140, the limit of the search entry point.
SearchLimit == Number(10)

\* score || 0 (documentProcessor.ts:164)
OrZero(score) == IF score.nan THEN ZeroScore ELSE score

\* documentProcessor.ts:179-184, what the entry point does with an error
\* raised inside it.
CatchSearchError == [outcome |-> "returned", result |-> <<>>]

\* documentProcessor.ts:134-185, searchDocuments(query, userId) from the
\* query's embedding on: the candidates of the index, the documents found
\* for them, sorted by score.
SearchEntry(queryEmbedding) ==
    LET out == StorageSearch(chunks, Plain(queryEmbedding), SearchLimit)
    IN  IF out.threw
        THEN [search |-> SearchRecord(Plain(queryEmbedding), SearchLimit, out),
              end |-> CatchSearchError]
        ELSE LET found == SelectSeq(out.list, LAMBDA r : getDocument(r.documentId) # Undefined)
                 docs == [i \in 1..Len(found) |->
                             [documentId |-> found[i].documentId,
                              score |-> OrZero(found[i].score),
                              chunkId |-> i]]
                 valid == SortByScore(docs)
             IN  [search |-> SearchRecord(Plain(queryEmbedding), SearchLimit, out),
                  end |-> [outcome |-> "returned",
                           result |-> [i \in 1..Len(valid) |-> valid[i].documentId]]]

\* The search history record of a search (documentProcessor.ts:168-172,
\* storage.ts:150).
SearchHistoryRecord(id, userId, results) == [id |-> id, userId |-> userId, results |-> results]

\* A search that threw in the scan skips createSearchHistory; every other
\* one records its result list (documentProcessor.ts:166-172).
searchDocuments(queryEmbedding) ==
    \E r \in {SearchEntry(queryEmbedding)} :
        /\ lastOp = NoOp
        /\ Len(searchHistory) < MaxSearches
        /\ lastSearch' = r.search
        /\ lastOp' = [op |-> "search", documentId |-> 0, limit |-> SearchLimit,
                      outcome |-> r.end.outcome, result |-> r.end.result]
        /\ IF r.search.outcome = "threw"
           THEN UNCHANGED <<searchHistory, nextSearchHistoryId>>
           ELSE /\ searchHistory' = MapSet(searchHistory,
                       SearchHistoryRecord(nextSearchHistoryId, DemoUser, r.end.result))
                /\ nextSearchHistoryId' = NextId(nextSearchHistoryId)
        /\ UNCHANGED <<documents, chunks, nextDocumentId, nextChunkId>>

\* storage.ts:148-153, called as addDemoDocuments (routes.ts:480-484) and
\* the search entry point call it.
createSearchHistory(userId, results) ==
    /\ lastOp = NoOp
    /\ Len(searchHistory) < MaxHistory
    /\ searchHistory' = MapSet(searchHistory,
           SearchHistoryRecord(nextSearchHistoryId, userId, results))
    /\ nextSearchHistoryId' = NextId(nextSearchHistoryId)
    /\ UNCHANGED <<documents, chunks, nextDocumentId, nextChunkId, lastSearch, lastOp>>

\* The route hands the result to the client (routes.ts, res.json) and the
\* server takes the next request.
Respond ==
    /\ lastOp # NoOp
    /\ lastOp' = NoOp
    /\ lastSearch' = NoSearch
    /\ UNCHANGED <<documents, chunks, idVars, searchHistory>>

(***************************************************************************)
(* Chunker (server/services/documentProcessor.ts, splitIntoChunks)         *)
(***************************************************************************)
MaxSplitLen == 7

\* Character codes: line feed, space, and a letter.
LineFeed == 10
Space == 32
Letter == 97

\* \s, on the characters of the model.
IsWhitespace(ch) == ch \in {LineFeed, Space}

SplitTexts == UNION {[1..n -> {Letter, LineFeed, Space}] : n \in 0..MaxSplitLen}
ChunkSizes == 1..MaxSplitLen

Least(S) == CHOOSE x \in S : \A y \in S : x <= y
Greatest(S) == CHOOSE x \in S : \A y \in S : y <= x

\* The last position of the match of /\n\s*\n/ that begins at position i, or
\* 0 when none begins there: \s* is greedy, so the match runs to the last
\* line feed of the whitespace run that follows text[i].
SeparatorEnd(text, i) ==
    IF text[i] # LineFeed THEN 0
    ELSE LET stops == {j \in (i + 1)..Len(text) : ~IsWhitespace(text[j])}
             runEnd == IF stops = {} THEN Len(text) ELSE Least(stops) - 1
             feeds == {j \in (i + 1)..runEnd : text[j] = LineFeed}
         IN  IF feeds = {} THEN 0 ELSE Greatest(feeds)

\* text.split(/\n\s*\n/) from position i on, the current piece starting at
\* start: the leftmost match is taken, then the search goes on behind it.
RECURSIVE SplitFrom(_, _, _, _)
SplitFrom(text, start, i, pieces) ==
    LET feeds == {j \in i..Len(text) : text[j] = LineFeed}
    IN  IF feeds = {} THEN Append(pieces, SubSeq(text, start, Len(text)))
        ELSE LET n == Least(feeds)
                 e == SeparatorEnd(text, n)
             IN  IF e = 0 THEN SplitFrom(text, start, n + 1, pieces)
                 ELSE SplitFrom(text, e + 1, e + 1,
                                Append(pieces, SubSeq(text, start, n - 1)))

\* documentProcessor.ts:109
SplitParagraphs(text) == SplitFrom(text, 1, 1, <<>>)

\* documentProcessor.ts:114
Fits(currentChunk, paragraph, maxChunkSize) ==
    Len(currentChunk) + Len(paragraph) < maxChunkSize

\* documentProcessor.ts:115
Join(currentChunk, paragraph) ==
    (IF currentChunk # <<>> THEN currentChunk \o <<LineFeed, LineFeed>> ELSE currentChunk)
        \o paragraph

\* documentProcessor.ts:117-119 and 124-126, if (currentChunk) chunks.push(currentChunk)
PushNothing(out, currentChunk) == out
Push(out, currentChunk) == IF currentChunk # <<>> THEN Append(out, currentChunk) ELSE out

\* documentProcessor.ts:113-126
RECURSIVE ChunksFrom(_, _, _, _, _)
ChunksFrom(paragraphs, i, currentChunk, out, maxChunkSize) ==
    IF i > Len(paragraphs) THEN Push(out, currentChunk)
    ELSE IF Fits(currentChunk, paragraphs[i], maxChunkSize)
    THEN ChunksFrom(paragraphs, i + 1, Join(currentChunk, paragraphs[i]), out, maxChunkSize)
    ELSE ChunksFrom(paragraphs, i + 1, paragraphs[i], Push(out, currentChunk), maxChunkSize)

\* documentProcessor.ts:107-129
splitIntoChunks(text, maxChunkSize) ==
    ChunksFrom(SplitParagraphs(text), 1, <<>>, <<>>, maxChunkSize)

\* documentProcessor.ts:107, the default of maxChunkSize
DefaultMaxChunkSize == 1000

ChunkerIdle == [pc |-> "idle", text |-> <<>>, maxChunkSize |-> 0, chunks |-> <<>>]

\* A call of splitIntoChunks and its return value.
SplitCall(text, maxChunkSize) ==
    /\ chunker.pc = "idle"
    /\ chunker' = [pc |-> "returned", text |-> text, maxChunkSize |-> maxChunkSize,
                   chunks |-> splitIntoChunks(text, maxChunkSize)]

\* The caller has taken the chunks.
SplitDone ==
    /\ chunker.pc = "returned"
    /\ chunker' = ChunkerIdle

(***************************************************************************)
(* Ingestion pipeline and search orchestrator                              *)
(* (server/services/documentProcessor.ts)                                  *)
(*                                                                         *)
(* processDocument and searchDocuments reach the store through the         *)
(* promise-returning storage interface, and their catch blocks say what a  *)
(* rejected storage call does to them: a storage call either takes effect  *)
(* and resolves, or rejects and leaves the store as it was.  A             *)
(* continuation that only follows an await on a storage call touches no    *)
(* shared state before the next provider or file-system await, so it is    *)
(* taken in the same step as the call.                                     *)
(***************************************************************************)
MaxJobs == 2
MaxQueries == 1

JobIds == 1..MaxJobs
QueryIds == 1..MaxQueries

\* File contents extractDocumentData can read: an empty file (no chunk), a
\* one-paragraph file (one chunk), and a paragraph of DefaultMaxChunkSize
\* letters followed by a second paragraph (two chunks).
EmptyContent == <<>>
ShortContent == <<Letter>>
LongContent ==
    [k \in 1..(DefaultMaxChunkSize + 3) |->
        IF k \in {DefaultMaxChunkSize + 1, DefaultMaxChunkSize + 2} THEN LineFeed ELSE Letter]
Contents == {EmptyContent, ShortContent, LongContent}

\* extractDocumentData (documentProcessor.ts:72-102): the content read, or a
\* rejection of fs.stat or fs.readFile, which it rethrows.
ExtractOutcomes ==
    {[ok |-> TRUE, content |-> c] : c \in Contents} \cup {[ok |-> FALSE, content |-> <<>>]}

\* What generateEmbedding hands back for a chunk or a query: the provider's
\* vector, or the fallback vector after a provider failure or under the
\* latch; it does not reject.
EmbeddingOutcomes ==
    {[fallback |-> FALSE, vector |-> <<1, 0>>], [fallback |-> TRUE, vector |-> <<-1, 0>>]}

IdleJob ==
    [pc |-> "idle", documentId |-> 0, chunks |-> <<>>, i |-> 0, result |-> 0,
     created |-> 0, fallbackAt |-> {}, failedAt |-> {}]

\* documentProcessor.ts:48-53, the chunk handed to storage.createChunk.
ProcessorChunkOrdinalZero(documentId, i, chunkText, embedding) ==
    [documentId |-> documentId, chunkIndex |-> 0, chunkText |-> chunkText,
     embedding |-> embedding]
ProcessorChunkOtherDocument(documentId, i, chunkText, embedding) ==
    [documentId |-> documentId + 1, chunkIndex |-> i, chunkText |-> chunkText,
     embedding |-> embedding]
ProcessorChunk(documentId, i, chunkText, embedding) ==
    [documentId |-> documentId, chunkIndex |-> i, chunkText |-> chunkText,
     embedding |-> embedding]

\* documentProcessor.ts:55-62, the catch block of the chunk loop and the
\* return behind it.
CatchEmbeddingErrorRethrows(documentId) == [pc |-> "raised", result |-> 0]
CatchEmbeddingError(documentId) == [pc |-> "returned", result |-> documentId]

\* documentProcessor.ts:18-25, processDocument up to the await on
\* extractDocumentData.
StartProcess(j) ==
    /\ jobs[j].pc = "idle"
    /\ jobs' = [jobs EXCEPT ![j].pc = "extracting"]
    /\ UNCHANGED <<documents, chunks, idVars, searchHistory, queries>>

\* The loop at documentProcessor.ts:44-46 from ordinal i on: the call of
\* generateEmbedding for chunk i, or the return at line 62 behind the loop.
LoopFrom(job, i) ==
    IF i < Len(job.chunks)
    THEN [job EXCEPT !.pc = "embedding", !.i = i]
    ELSE [job EXCEPT !.pc = "returned", !.i = i, !.result = job.documentId]

\* documentProcessor.ts:25-46: extraction has settled; createDocument,
\* splitIntoChunks and the first turn of the loop follow, or the error is
\* rethrown at line 65.
ExtractionSettles(j, outcome, stored) ==
    /\ jobs[j].pc = "extracting"
    /\ IF outcome.ok /\ stored
       THEN /\ documents' = MapSet(documents, DocumentRecord(nextDocumentId, DemoUser))
            /\ nextDocumentId' = NextId(nextDocumentId)
            /\ jobs' = [jobs EXCEPT ![j] =
                  LoopFrom([jobs[j] EXCEPT
                               !.documentId = nextDocumentId, !.created = 1,
                               !.chunks = splitIntoChunks(outcome.content, DefaultMaxChunkSize)],
                           0)]
       ELSE /\ jobs' = [jobs EXCEPT ![j].pc = "raised"]
            /\ UNCHANGED <<documents, nextDocumentId>>
    /\ UNCHANGED <<chunks, nextChunkId, nextSearchHistoryId, searchHistory, queries>>

\* documentProcessor.ts:46-62: generateEmbedding has returned for chunk i;
\* createChunk follows, then the next turn of the loop, or the catch block.
EmbeddingSettles(j, e, stored) ==
    /\ jobs[j].pc = "embedding"
    /\ LET job == jobs[j]
           seen == [job EXCEPT !.fallbackAt =
                        IF e.fallback THEN job.fallbackAt \cup {job.i} ELSE job.fallbackAt]
       IN  IF stored
           THEN /\ chunks' = MapSet(chunks,
                       ChunkRecord(nextChunkId,
                           ProcessorChunk(job.documentId, job.i, job.chunks[job.i + 1],
                                          Embedded(e.vector))))
                /\ nextChunkId' = NextId(nextChunkId)
                /\ jobs' = [jobs EXCEPT ![j] = LoopFrom(seen, job.i + 1)]
           ELSE LET end == CatchEmbeddingError(job.documentId)
                IN  /\ jobs' = [jobs EXCEPT ![j] =
                           [seen EXCEPT !.pc = end.pc, !.result = end.result,
                                        !.failedAt = {job.i}]]
                    /\ UNCHANGED <<chunks, nextChunkId>>
    /\ UNCHANGED <<documents, nextDocumentId, nextSearchHistoryId, searchHistory, queries>>

\* The two definitions of searchDocuments the file holds
\* (documentProcessor.ts:134-185 and 364-398); a caller is bound to one.
Definitions == {"first", "second"}

IdleQuery ==
    [pc |-> "idle", definition |-> "first", query |-> Plain(<<>>), candidates |-> <<>>,
     snippetFailed |-> {}, historyFailed |-> FALSE, sawMissing |-> FALSE,
     valid |-> <<>>, result |-> <<>>]

\* documentProcessor.ts:179-184 and 394-397, the outer catch block: the
\* first definition returns an empty list, the second rethrows.
CatchSearch(definition) ==
    IF definition = "first" THEN [pc |-> "returned", result |-> <<>>]
    ELSE [pc |-> "raised", result |-> <<>>]

\* documentProcessor.ts:134-137, searchDocuments up to the await on
\* generateEmbedding.
StartSearch(q, definition) ==
    /\ queries[q].pc = "idle"
    /\ queries' = [queries EXCEPT ![q] = [IdleQuery EXCEPT !.pc = "embedding",
                                                           !.definition = definition]]
    /\ UNCHANGED <<documents, chunks, idVars, searchHistory, jobs>>

\* documentProcessor.ts:137-140: the query embedding is there and
\* storage.searchDocuments(queryEmbedding, 10) runs.
QueryEmbedded(q, e) ==
    /\ queries[q].pc = "embedding"
    /\ \E out \in {StorageSearch(chunks, Plain(e.vector), SearchLimit)} :
          queries' = [queries EXCEPT ![q] =
              IF out.threw
              THEN LET end == CatchSearch(queries[q].definition)
                   IN  [queries[q] EXCEPT !.pc = end.pc, !.query = Plain(e.vector),
                                          !.result = end.result]
              ELSE [queries[q] EXCEPT !.pc = "scanned", !.query = Plain(e.vector),
                                      !.candidates = out.list]]
    /\ UNCHANGED <<documents, chunks, idVars, searchHistory, jobs>>

\* getDocumentSnippet (documentProcessor.ts:190-229) by the kind of its
\* result: the placeholder of the catch block when reading the chunks
\* fails, the placeholder for a document without chunks, else a chunk text.
SnippetFailureThrows(documentId) == [kept |-> FALSE, snippet |-> "unavailable"]
SnippetFailure(documentId) == [kept |-> TRUE, snippet |-> "unavailable"]
getDocumentSnippet(documentId, fails) ==
    IF fails THEN SnippetFailure(documentId)
    ELSE IF Len(getChunksByDocument(documentId)) = 0
    THEN [kept |-> TRUE, snippet |-> "none"]
    ELSE [kept |-> TRUE, snippet |-> "text"]

\* documentProcessor.ts:144-158 and 374-380, the entry built for one
\* candidate; id 0 stands for a field that is not there.
CandidateEntry(definition, candidate, fails) ==
    LET document == getDocument(candidate.documentId)
        snip == getDocumentSnippet(document.id, fails)
    IN  IF definition = "second"
        THEN [kept |-> TRUE, documentId |-> document.id, score |-> candidate.score,
              snippet |-> "absent"]
        ELSE IF document = Undefined
        THEN [kept |-> FALSE, documentId |-> 0, score |-> candidate.score, snippet |-> "absent"]
        ELSE [kept |-> snip.kept, documentId |-> document.id, score |-> candidate.score,
              snippet |-> snip.snippet]

\* documentProcessor.ts:163-164 and 384: the entries kept, sorted by
\* (b.score || 0) - (a.score || 0) in the first definition and by
\* b.score - a.score in the second.
ValidDocuments(definition, candidates, snippetFails) ==
    LET entries == [k \in 1..Len(candidates) |->
                       CandidateEntry(definition, candidates[k],
                                      candidates[k].documentId \in snippetFails)]
        kept == SelectSeq(entries, LAMBDA en : en.kept)
        keyed == [k \in 1..Len(kept) |->
                     [documentId |-> kept[k].documentId,
                      score |-> IF definition = "first" THEN OrZero(kept[k].score)
                                ELSE kept[k].score,
                      chunkId |-> k]]
        sorted == SortByScore(keyed)
    IN  [k \in 1..Len(sorted) |->
            [documentId |-> sorted[k].documentId, score |-> kept[sorted[k].chunkId].score,
             snippet |-> kept[sorted[k].chunkId].snippet]]

\* documentProcessor.ts:166-178 and 386-393, how the call ends when
\* createSearchHistory rejects.
HistoryFailure(definition, valid) ==
    IF definition = "first" THEN [pc |-> "returned", result |-> valid]
    ELSE CatchSearch(definition)

\* documentProcessor.ts:143-178: the documents and snippets of the
\* candidates, the sort, createSearchHistory and the return.
SearchCompletes(q, snippetFails, stored) ==
    /\ queries[q].pc = "scanned"
    /\ LET query == queries[q]
           ids == {query.candidates[k].documentId : k \in 1..Len(query.candidates)}
           valid == ValidDocuments(query.definition, query.candidates, snippetFails)
           seen == [query EXCEPT
                       !.snippetFailed = snippetFails, !.valid = valid,
                       !.sawMissing = \E d \in ids : getDocument(d) = Undefined]
       IN  /\ snippetFails \subseteq ids
           /\ query.definition = "second" => snippetFails = {}
           /\ IF stored
              THEN /\ searchHistory' = MapSet(searchHistory,
                          SearchHistoryRecord(nextSearchHistoryId, DemoUser,
                              [k \in 1..Len(valid) |-> valid[k].documentId]))
                   /\ nextSearchHistoryId' = NextId(nextSearchHistoryId)
                   /\ queries' = [queries EXCEPT ![q] =
                          [seen EXCEPT !.pc = "returned", !.result = valid]]
              ELSE LET end == HistoryFailure(query.definition, valid)
                   IN  /\ queries' = [queries EXCEPT ![q] =
                              [seen EXCEPT !.pc = end.pc, !.result = end.result,
                                           !.historyFailed = TRUE]]
                       /\ UNCHANGED <<searchHistory, nextSearchHistoryId>>
    /\ UNCHANGED <<documents, chunks, nextDocumentId, nextChunkId, jobs>>

(***************************************************************************)
(* Snippet of a search result (getDocumentSnippet,                         *)
(* server/services/documentProcessor.ts:190-229), computed on the texts of *)
(* the document's chunks and the query text.                               *)
(***************************************************************************)
MaxSnippetChunks == 2
MaxQueryWords == 3

\* documentProcessor.ts:221-222
SnippetMax == 200
SnippetKeep == 197
Ellipsis == <<46, 46, 46>>

\* "No preview available" (documentProcessor.ts:195)
NoPreview ==
    <<78, 111, 32, 112, 114, 101, 118, 105, 101, 119, 32,
      97, 118, 97, 105, 108, 97, 98, 108, 101>>

\* String.prototype.toLowerCase on the letters A-Z.
LowerCaseChar(ch) == IF ch \in 65..90 THEN ch + 32 ELSE ch
LowerCase(text) == [k \in 1..Len(text) |-> LowerCaseChar(text[k])]

\* \w of a regular expression: [A-Za-z0-9_].
IsWordChar(ch) == ch \in (48..57) \cup (65..90) \cup {95} \cup (97..122)

\* text.split(/\W+/): the pieces between the maximal runs of non-word
\* characters, the empty pieces before a leading and behind a trailing run
\* included.
RECURSIVE TermsFrom(_, _, _, _)
TermsFrom(text, i, current, out) ==
    IF i > Len(text) THEN Append(out, current)
    ELSE IF IsWordChar(text[i]) THEN TermsFrom(text, i + 1, Append(current, text[i]), out)
    ELSE IF i > 1 /\ ~IsWordChar(text[i - 1]) THEN TermsFrom(text, i + 1, current, out)
    ELSE TermsFrom(text, i + 1, <<>>, Append(out, current))

\* documentProcessor.ts:199
QueryTerms(query) ==
    SelectSeq(TermsFrom(LowerCase(query), 1, <<>>, <<>>), LAMBDA t : Len(t) > 2)

\* String.prototype.includes
Includes(text, term) ==
    \E i \in 0..(Len(text) - Len(term)) : SubSeq(text, i + 1, i + Len(term)) = term

\* documentProcessor.ts:204-211, the score of one chunk: one for every
\* entry of queryTerms the lowercased chunk text includes.
TermScore(chunkText, queryTerms) ==
    Cardinality({k \in 1..Len(queryTerms) : Includes(LowerCase(chunkText), queryTerms[k])})

\* documentProcessor.ts:200-217, the loop over the chunks from chunk i on;
\* the chunk kept so far is replaced only by a strictly higher score.
RECURSIVE BestFrom(_, _, _, _, _)
BestFrom(chunkTexts, i, bestChunk, bestScore, queryTerms) ==
    IF i > Len(chunkTexts) THEN bestChunk
    ELSE LET score == TermScore(chunkTexts[i], queryTerms)
         IN  IF score > bestScore
             THEN BestFrom(chunkTexts, i + 1, i, score, queryTerms)
             ELSE BestFrom(chunkTexts, i + 1, bestChunk, bestScore, queryTerms)

\* documentProcessor.ts:200-201 and 203-217: chunks[0] with score 0 to begin
\* with; the position of the chunk selected.
BestChunk(chunkTexts, query) == BestFrom(chunkTexts, 1, 1, 0, QueryTerms(query))

\* documentProcessor.ts:222
TruncatedWhole(text) == text \o Ellipsis
Truncated(text) == SubSeq(text, 1, SnippetKeep) \o Ellipsis

\* documentProcessor.ts:219-224
SnippetText(text) == IF Len(text) > SnippetMax THEN Truncated(text) ELSE text

\* documentProcessor.ts:192-224, the snippet for a document whose chunks
\* have these texts.
SnippetOf(chunkTexts, query) ==
    IF Len(chunkTexts) = 0 THEN NoPreview
    ELSE SnippetText(chunkTexts[BestChunk(chunkTexts, query)])

\* Words of a query: a term, a term with a capital, and a word too short to
\* be a term; joined by a comma and a space.
QueryWords == {<<97, 97, 97>>, <<66, 98, 98>>, <<97, 98>>}
WordSeparator == <<44, 32>>

RECURSIVE JoinWords(_, _)
JoinWords(words, i) ==
    IF i > Len(words) THEN <<>>
    ELSE IF i = Len(words) THEN words[i]
    ELSE words[i] \o WordSeparator \o JoinWords(words, i + 1)

SnippetQueries ==
    {JoinWords(words, 1) : words \in UNION {[1..n -> QueryWords] : n \in 0..MaxQueryWords}}

\* Chunk texts: short ones that include some of the terms, and texts of
\* SnippetMax and SnippetMax + 1 characters that begin with a term.
LongText(n) == [k \in 1..n |-> IF k <= 3 THEN 98 ELSE 99]
SnippetChunkTexts ==
    {<<97, 97, 97>>, <<66, 98, 98>>, <<97, 97, 97, 32, 98, 98, 98>>}
    \cup {LongText(n) : n \in SnippetMax..(SnippetMax + 1)}
SnippetChunkLists == UNION {[1..n -> SnippetChunkTexts] : n \in 0..MaxSnippetChunks}

SnippetIdle == [pc |-> "idle", chunks |-> <<>>, query |-> <<>>, best |-> 0, result |-> <<>>]

\* A call of getDocumentSnippet and its return value.
SnippetCall(chunkTexts, query) ==
    /\ snippetCall' = [pc |-> "returned", chunks |-> chunkTexts, query |-> query,
                       best |-> IF Len(chunkTexts) = 0 THEN 0
                                ELSE BestChunk(chunkTexts, query),
                       result |-> SnippetOf(chunkTexts, query)]

\* The caller has taken the snippet.
SnippetDone ==
    /\ snippetCall.pc = "returned"
    /\ snippetCall' = SnippetIdle

(***************************************************************************)
(* The embedding generators as functions: the local generator              *)
(* (server/services/generateAI.ts:13-30), the provider module's fallback   *)
(* (server/services/openai.ts:49-64) and the provider's own vector         *)
(* (openai.ts:30).                                                         *)
(*                                                                         *)
(* A vector before normalization is kept as integers over a common         *)
(* denominator, [num, den] for num[i] / den; a returned vector as          *)
(* [num, root] for num[i] / sqrt(root), or as NaN in every component.      *)
(***************************************************************************)
MaxHighDigit == 1
MaxFakeComponents == 2

\* generateAI.ts:15, the length of a SHA-256 digest in hexadecimal, and
\* generateAI.ts:19 and 23.
DigestLength == 64
LocalDim == 128
ByteMax == 255

\* Digests: hexadecimal digits as numbers.  All digits are 0 but those at
\* the offsets 59, 60 and 61; the one at offset 59 is at most MaxHighDigit.
HexDigits == 0..15
Digests ==
    {[k \in 1..DigestLength |->
         IF k = DigestLength - 4 THEN high
         ELSE IF k \in {DigestLength - 3, DigestLength - 2} THEN low[k - (DigestLength - 4)]
         ELSE 0] :
       high \in 0..MaxHighDigit, low \in [1..2 -> HexDigits]}

\* String.prototype.substring(start, end) for indices within the string:
\* the two indices are swapped when start > end.
Substring(s, start, end) ==
    IF start > end THEN SubSeq(s, end + 1, start) ELSE SubSeq(s, start + 1, end)

\* generateAI.ts:21, the part of the digest used for component i.
HexPart(hash, i) == Substring(hash, (i * 2) % Len(hash), (i * 2 + 2) % Len(hash))

\* parseInt(hexPart, 16) of a non-empty string of hexadecimal digits.
RECURSIVE ParseHexFrom(_, _, _)
ParseHexFrom(digits, i, acc) ==
    IF i > Len(digits) THEN acc ELSE ParseHexFrom(digits, i + 1, acc * 16 + digits[i])
ParseHex(digits) == ParseHexFrom(digits, 1, 0)

\* generateAI.ts:23, (parseInt(hexPart, 16) / 255) * 2 - 1 over the
\* denominator 255.
LocalValue(hexPart) == 2 * ParseHex(hexPart) - ByteMax

\* generateAI.ts:18-25
LocalValues(hash) ==
    [num |-> [k \in 1..LocalDim |-> LocalValue(HexPart(hash, k - 1))], den |-> ByteMax]

\* The sum of the squares of num[lo..hi], by halves.
RECURSIVE SumSquaresOf(_, _, _)
SumSquaresOf(num, lo, hi) ==
    IF lo > hi THEN 0
    ELSE IF lo = hi THEN num[lo] * num[lo]
    ELSE LET mid == (lo + hi) \div 2
         IN  SumSquaresOf(num, lo, mid) + SumSquaresOf(num, mid + 1, hi)
SumSquares(num) == SumSquaresOf(num, 1, Len(num))

\* generateAI.ts:28-29 and openai.ts:62-63: every component over the
\* magnitude; 0 / 0 is NaN.
NormalizeNot(values) == [nan |-> FALSE, num |-> values.num, root |-> values.den * values.den]
Normalize(values) ==
    IF SumSquares(values.num) = 0
    THEN [nan |-> TRUE, num |-> values.num, root |-> 0]
    ELSE [nan |-> FALSE, num |-> values.num, root |-> SumSquares(values.num)]

\* TLC computes no sine.  hash * (i + 1) radians is the (i + 1)-fold of the
\* angle of the hash, and the angle of the hash is drawn from angles with
\* a rational sine s / d and cosine c / d (0 radians, the angle of the hash
\* 0 of the empty text, among them); the sines of its multiples are then
\* computed exactly.
Angles ==
    { [s |-> 0, c |-> 1, d |-> 1], [s |-> 1, c |-> 0, d |-> 1],
      [s |-> 0, c |-> -1, d |-> 1], [s |-> -1, c |-> 0, d |-> 1],
      [s |-> 3, c |-> 4, d |-> 5], [s |-> -3, c |-> 4, d |-> 5],
      [s |-> 4, c |-> -3, d |-> 5], [s |-> -4, c |-> -3, d |-> 5] }

\* The k-fold of an angle: sin((k+1)x) = sin(kx)cos(x) + cos(kx)sin(x),
\* cos((k+1)x) = cos(kx)cos(x) - sin(kx)sin(x).
RECURSIVE MultipleAngle(_, _)
MultipleAngle(angle, k) ==
    IF k = 1 THEN angle
    ELSE LET prev == MultipleAngle(angle, k - 1)
         IN  [s |-> prev.s * angle.c + prev.c * angle.s,
              c |-> prev.c * angle.c - prev.s * angle.s,
              d |-> prev.d * angle.d]

RECURSIVE Power(_, _)
Power(base, n) == IF n = 0 THEN 1 ELSE base * Power(base, n - 1)

\* openai.ts:55-59, Math.sin(hash * (i + 1)) / 2 + 0.5 for the first
\* MaxFakeComponents components, over the denominator 2 * d^MaxFakeComponents.
FakeValues(angle) ==
    [num |-> [k \in 1..MaxFakeComponents |->
                 LET m == MultipleAngle(angle, k)
                 IN  (m.s + m.d) * Power(angle.d, MaxFakeComponents - k)],
     den |-> 2 * Power(angle.d, MaxFakeComponents)]

\* response.data[0].embedding, returned as the provider sent it
\* (openai.ts:30); the provider's embeddings have length 1.
ProviderResult(v) == [nan |-> FALSE, num |-> v, root |-> 1]

GeneratorIdle ==
    [pc |-> "idle", generator |-> "none", parts |-> <<>>, values |-> [num |-> <<>>, den |-> 1],
     result |-> [nan |-> FALSE, num |-> <<>>, root |-> 1]]

\* generateAI.ts:13-30, generateEmbedding(text) of the local generator for
\* a text with this digest.
LocalEmbedding(hash) ==
    /\ generatorCall.pc = "idle"
    /\ generatorCall' =
          [pc |-> "returned", generator |-> "local",
           parts |-> [k \in 1..LocalDim |-> HexPart(hash, k - 1)],
           values |-> LocalValues(hash),
           result |-> Normalize(LocalValues(hash))]

\* openai.ts:49-64, generateFakeEmbedding(text) for a text whose hash has
\* this angle; generateEmbedding returns it at lines 20 and 41.
FakeEmbedding(angle) ==
    /\ generatorCall.pc = "idle"
    /\ generatorCall' =
          [pc |-> "returned", generator |-> "fallback", parts |-> <<>>,
           values |-> FakeValues(angle),
           result |-> Normalize(FakeValues(angle))]

\* openai.ts:24-30, generateEmbedding returns the provider's vector.
ProviderReturns(v) ==
    /\ generatorCall.pc = "idle"
    /\ generatorCall' =
          [pc |-> "returned", generator |-> "provider", parts |-> <<>>,
           values |-> [num |-> v, den |-> 1],
           result |-> ProviderResult(v)]

\* The caller has taken the vector.
GeneratorDone ==
    /\ generatorCall.pc = "returned"
    /\ generatorCall' = GeneratorIdle

(***************************************************************************)
(* The chat-completion services of the provider module (generateSummary,   *)
(* extractKeyPoints, generateAnswer; server/services/openai.ts:69-260).    *)
(* They read and write the latch of generateEmbedding.                     *)
(***************************************************************************)
MaxCompletions == 1

CompletionIds == 1..MaxCompletions
Services == {"generateSummary", "extractKeyPoints", "generateAnswer"}

\* What the awaited chat.completions.create request can do: resolve, or
\* reject with an API error.
CompletionOutcomes ==
    {[kind |-> "ok", embedding |-> <<>>, error |-> NoError]}
    \cup {[kind |-> "rejected", embedding |-> <<>>, error |-> e] : e \in ApiErrors}

IdleCompletion ==
    [pc |-> "idle", service |-> "none", outcome |-> NoOutcome, result |-> "none"]

\* openai.ts:77-83, 139-145 and 227-233: a service up to its first await;
\* under the latch it returns its fallback text without a request.
StartCompletion(k, service) ==
    /\ completions[k].pc = "idle"
    /\ completions' = [completions EXCEPT ![k] =
          IF SkipsProvider(hasQuotaError)
          THEN [IdleCompletion EXCEPT !.pc = "returned", !.service = service,
                                      !.result = "fallback"]
          ELSE [IdleCompletion EXCEPT !.pc = "awaiting", !.service = service]]
    /\ UNCHANGED <<hasQuotaError, calls, otherErrorHandled>>

\* openai.ts:97-108, 152-183 and 249-260: the request of the service
\* settles; the catch block sets the latch on a quota error and returns
\* the fallback text.
CompletionSettles(k, o) ==
    /\ completions[k].pc = "awaiting"
    /\ IF o.kind = "ok"
       THEN /\ completions' = [completions EXCEPT ![k].pc = "returned", ![k].outcome = o,
                                                  ![k].result = "provider"]
            /\ UNCHANGED hasQuotaError
       ELSE /\ hasQuotaError' = LatchAfterError(hasQuotaError, o.error)
            /\ completions' = [completions EXCEPT ![k].pc = "returned", ![k].outcome = o,
                                                  ![k].result = "fallback"]
    /\ UNCHANGED <<calls, otherErrorHandled>>

EmbedInit ==
    /\ hasQuotaError = FALSE
    /\ calls = [c \in CallIds |-> IdleCall]
    /\ otherErrorHandled = FALSE

\* The MemStorage constructor (storage.ts:54-63) and no request served.
IndexIdle ==
    /\ documents = <<>>
    /\ chunks = <<>>
    /\ lastSearch = NoSearch
    /\ lastOp = NoOp
    /\ nextDocumentId = 1
    /\ nextChunkId = 1
    /\ nextSearchHistoryId = 1
    /\ searchHistory = <<>>

PipelineIdle ==
    /\ jobs = [j \in JobIds |-> IdleJob]
    /\ queries = [q \in QueryIds |-> IdleQuery]
    /\ chunker = ChunkerIdle

AuxIdle ==
    /\ snippetCall = SnippetIdle
    /\ generatorCall = GeneratorIdle
    /\ completions = [k \in CompletionIds |-> IdleCompletion]

Init == EmbedInit /\ IndexIdle /\ PipelineIdle /\ AuxIdle

idleVars == <<indexVars, idVars, searchHistory, pipelineVars, chunker, auxVars>>

Next ==
    \/ \E c \in CallIds, text \in Texts : StartEmbedding(c, text) /\ UNCHANGED idleVars
    \/ \E c \in CallIds, o \in ProviderOutcomes : ProviderSettles(c, o) /\ UNCHANGED idleVars

Spec == Init /\ [][Next]_vars

restVars == <<embedVars, pipelineVars, chunker, auxVars>>

NextIndex ==
    \/ createDocument(DemoUser) /\ UNCHANGED restVars
    \/ \E d \in 1..MaxDocs, v \in Embeddings :
          createChunk(d, Embedded(v)) /\ UNCHANGED restVars
    \/ \E q \in Embeddings : searchDocuments(q) /\ UNCHANGED restVars
    \/ \E d \in 1..(MaxDocs + 1) : findRelatedDocuments(d) /\ UNCHANGED restVars
    \/ Respond /\ UNCHANGED restVars

SpecIndex == Init /\ [][NextIndex]_vars

\* splitIntoChunks on every text and maximum of the model.
NextChunker ==
    \/ /\ chunker.pc = "idle"
       /\ \E text \in SplitTexts, maxChunkSize \in ChunkSizes : SplitCall(text, maxChunkSize)
          /\ UNCHANGED <<embedVars, indexVars, idVars, searchHistory, pipelineVars, auxVars>>
    \/ SplitDone /\ UNCHANGED <<embedVars, indexVars, idVars, searchHistory, pipelineVars, auxVars>>

SpecChunker == Init /\ [][NextChunker]_vars

\* Uploads and searches served concurrently, interleaved at their awaits.
NextPipeline ==
    \/ \E j \in JobIds : StartProcess(j) /\ UNCHANGED <<embedVars, lastSearch, lastOp, chunker, auxVars>>
    \/ \E j \in JobIds, o \in ExtractOutcomes, stored \in BOOLEAN :
          ExtractionSettles(j, o, stored) /\ UNCHANGED <<embedVars, lastSearch, lastOp, chunker, auxVars>>
    \/ \E j \in JobIds, e \in EmbeddingOutcomes, stored \in BOOLEAN :
          EmbeddingSettles(j, e, stored) /\ UNCHANGED <<embedVars, lastSearch, lastOp, chunker, auxVars>>
    \/ \E q \in QueryIds, d \in Definitions :
          StartSearch(q, d) /\ UNCHANGED <<embedVars, lastSearch, lastOp, chunker, auxVars>>
    \/ \E q \in QueryIds, e \in EmbeddingOutcomes :
          QueryEmbedded(q, e) /\ UNCHANGED <<embedVars, lastSearch, lastOp, chunker, auxVars>>
    \/ \E q \in QueryIds, fails \in SUBSET (1..MaxJobs), stored \in BOOLEAN :
          SearchCompletes(q, fails, stored)
          /\ UNCHANGED <<embedVars, lastSearch, lastOp, chunker, auxVars>>

SpecPipeline == Init /\ [][NextPipeline]_vars

\* The result lists callers record: none found, and the list of the demo
\* records (routes.ts:483).
HistoryResults == {<<>>, <<1, 2, 3>>}

\* The three create operations of the store, called in any order.
NextStore ==
    \/ createDocument(DemoUser) /\ UNCHANGED restVars
    \/ \E d \in 1..MaxDocs, v \in Embeddings :
          createChunk(d, Embedded(v)) /\ UNCHANGED restVars
    \/ \E results \in HistoryResults :
          createSearchHistory(DemoUser, results) /\ UNCHANGED restVars

SpecStore == Init /\ [][NextStore]_vars

\* getDocumentSnippet on every chunk list and query of the model.
NextSnippet ==
    \/ /\ snippetCall.pc = "idle"
       /\ \E chunkTexts \in SnippetChunkLists, query \in SnippetQueries :
             SnippetCall(chunkTexts, query)
       /\ UNCHANGED <<embedVars, indexVars, idVars, searchHistory, pipelineVars, chunker, generatorCall,
                    completions>>
    \/ SnippetDone
       /\ UNCHANGED <<embedVars, indexVars, idVars, searchHistory, pipelineVars, chunker, generatorCall,
                    completions>>

SpecSnippet == Init /\ [][NextSnippet]_vars

\* The embedding generators on every digest, angle and provider vector of
\* the model.
NextGenerators ==
    \/ \E hash \in Digests : LocalEmbedding(hash)
          /\ UNCHANGED <<embedVars, indexVars, idVars, searchHistory, pipelineVars, chunker,
                         snippetCall, completions>>
    \/ \E angle \in Angles : FakeEmbedding(angle)
          /\ UNCHANGED <<embedVars, indexVars, idVars, searchHistory, pipelineVars, chunker,
                         snippetCall, completions>>
    \/ \E v \in ProviderVectors : ProviderReturns(v)
          /\ UNCHANGED <<embedVars, indexVars, idVars, searchHistory, pipelineVars, chunker,
                         snippetCall, completions>>
    \/ GeneratorDone
          /\ UNCHANGED <<embedVars, indexVars, idVars, searchHistory, pipelineVars, chunker,
                         snippetCall, completions>>

SpecGenerators == Init /\ [][NextGenerators]_vars

\* Embedding requests and the chat-completion services of the provider
\* module, interleaved at their awaits.
providerIdleVars ==
    <<indexVars, idVars, searchHistory, pipelineVars, chunker, snippetCall, generatorCall>>

NextProvider ==
    \/ \E c \in CallIds, text \in Texts :
          StartEmbedding(c, text) /\ UNCHANGED <<providerIdleVars, completions>>
    \/ \E c \in CallIds, o \in ProviderOutcomes :
          ProviderSettles(c, o) /\ UNCHANGED <<providerIdleVars, completions>>
    \/ \E k \in CompletionIds, service \in Services :
          StartCompletion(k, service) /\ UNCHANGED providerIdleVars
    \/ \E k \in CompletionIds, o \in CompletionOutcomes :
          CompletionSettles(k, o) /\ UNCHANGED providerIdleVars

SpecProvider == Init /\ [][NextProvider]_vars

\* Users the store holds: the demo user of the constructor (storage.ts:66)
\* and those created through createUser (storage.ts:86-91).
MaxUsers == 2
Users == 1..MaxUsers

\* Documents ingested for any user (processDocument(..., userId),
\* documentProcessor.ts:28-37) and searches of the demo user.
NextOwners ==
    \/ \E u \in Users : createDocument(u) /\ UNCHANGED restVars
    \/ \E d \in 1..MaxDocs, v \in Embeddings :
          createChunk(d, Embedded(v)) /\ UNCHANGED restVars
    \/ \E q \in Embeddings : searchDocuments(q) /\ UNCHANGED restVars
    \/ Respond /\ UNCHANGED restVars

SpecOwners == Init /\ [][NextOwners]_vars

\* An index as uploads of one-paragraph files leave it: documents 1..n, one
\* chunk each.
MaxRelatedDocs == 4
RelatedIndexes ==
    UNION {[1..n -> {<<1, 0>>, <<-1, 0>>}] : n \in 0..MaxRelatedDocs}
InitRelated ==
    /\ EmbedInit
    /\ PipelineIdle
    /\ AuxIdle
    /\ lastSearch = NoSearch
    /\ lastOp = NoOp
    /\ nextSearchHistoryId = 1
    /\ searchHistory = <<>>
    /\ \E index \in RelatedIndexes :
          /\ documents = [k \in 1..Len(index) |-> DocumentRecord(k, DemoUser)]
          /\ chunks = [k \in 1..Len(index) |->
                          ChunkRecord(k, ProcessorChunk(k, 0, ShortContent, Embedded(index[k])))]
          /\ nextDocumentId = Len(index) + 1
          /\ nextChunkId = Len(index) + 1

\* Related-document requests against such an index.
NextRelated ==
    \/ \E d \in 1..(MaxRelatedDocs + 1) : findRelatedDocuments(d) /\ UNCHANGED restVars
    \/ Respond /\ UNCHANGED restVars

SpecRelated == InitRelated /\ [][NextRelated]_vars

(***************************************************************************)
(* Claims about the embedding generator, checked under Spec.               *)
(***************************************************************************)
IsFallbackResult(r) == r.path = "fallback"

C1_StartedDegraded(c) == calls[c].pc # "idle" /\ calls[c].degradedAtStart
\* C1: the latch is one-way: hasQuotaError never goes from true to false, and
\* a generateEmbedding call that starts with the latch set returns the
\* fallback vector without invoking the provider.
C1_LatchOneWay ==
    /\ [][hasQuotaError => hasQuotaError']_vars
    /\ [](\A c \in CallIds :
            C1_StartedDegraded(c) =>
                /\ calls[c].pc = "returned"
                /\ IsFallbackResult(calls[c].result)
                /\ ~calls[c].invoked)
C1_Witness ==
    \E c, d \in CallIds :
        /\ calls[c].pc = "returned"
        /\ calls[c].outcome.kind = "rejected" /\ calls[c].outcome.error.status = 429
        /\ C1_StartedDegraded(d) /\ calls[d].pc = "returned"

C2_IsFailure(o) == o.kind \in {"nodata", "rejected"}
C2_IsQuota(o) ==
    C2_IsFailure(o) /\ (o.error.code = "insufficient_quota" \/ o.error.status = 429)
C2_Settled(c) == calls[c].pc = "awaiting" /\ calls'[c].pc # "awaiting"
\* C2: a provider failure that is neither code 'insufficient_quota' nor
\* status 429 ends its call with the fallback vector and leaves the latch as
\* it was; the latch changes only when a call handles a failure that is one
\* of the two; and a call that starts with the latch unset invokes the
\* provider, also after such a failure has been handled.
C2_OtherFailureDoesNotLatch ==
    /\ [][\A c \in CallIds :
            (C2_Settled(c) /\ C2_IsFailure(calls'[c].outcome) /\ ~C2_IsQuota(calls'[c].outcome))
                => /\ hasQuotaError' = hasQuotaError
                   /\ calls'[c].pc = "returned"
                   /\ IsFallbackResult(calls'[c].result)]_vars
    /\ [][hasQuotaError' # hasQuotaError
            => \E c \in CallIds : C2_Settled(c) /\ C2_IsQuota(calls'[c].outcome)]_vars
    /\ [](\A c \in CallIds :
            (calls[c].pc # "idle" /\ ~calls[c].degradedAtStart) => calls[c].invoked)
C2_Witness ==
    \E c, d \in CallIds :
        /\ calls[c].pc = "returned"
        /\ C2_IsFailure(calls[c].outcome) /\ ~C2_IsQuota(calls[c].outcome)
        /\ IsFallbackResult(calls[c].result)
        /\ ~hasQuotaError
        /\ calls[d].pc = "awaiting" /\ calls[d].afterOtherError /\ calls[d].invoked

C3_IsVector(r) == r.path \in {"provider", "fallback"} /\ r.dim > 0
\* C3: generateEmbedding never fails outward: no call ends by raising, and a
\* call that has ended has returned a vector, whatever the provider did and
\* whatever the latch was when the call started.
C3_NeverFailsOutward ==
    \A c \in CallIds :
        /\ calls[c].pc \in {"idle", "awaiting", "returned"}
        /\ calls[c].pc = "returned" => C3_IsVector(calls[c].result)
C3_Witness ==
    \E c, d \in CallIds :
        /\ calls[c].pc = "returned"
        /\ calls[c].outcome.kind = "rejected" /\ ~C2_IsQuota(calls[c].outcome)
        /\ calls[d].pc = "returned"
        /\ calls[d].outcome.kind = "rejected" /\ C2_IsQuota(calls[d].outcome)

C24_QuotaHandled(c) == calls[c].pc = "returned" /\ C2_IsQuota(calls[c].outcome)
\* C24: with several calls in flight at once, the latch is set exactly when
\* some call has handled a quota error, however many have and in whatever
\* order the requests settled, and every call that was in flight and has
\* ended has returned a vector.
C24_ConcurrentLatch ==
    /\ hasQuotaError <=> \E c \in CallIds : C24_QuotaHandled(c)
    /\ \A c \in CallIds :
          (calls[c].invoked /\ calls[c].pc # "awaiting") =>
              /\ calls[c].pc = "returned"
              /\ C3_IsVector(calls[c].result)
C24_Witness ==
    /\ hasQuotaError
    /\ \E c, d \in CallIds :
          /\ c # d
          /\ calls[c].invoked /\ C24_QuotaHandled(c)
          /\ calls[d].invoked /\ C24_QuotaHandled(d)

(***************************************************************************)
(* Claims about the vector index, checked under SpecIndex.                 *)
(***************************************************************************)
SearchReturned == lastSearch.outcome = "returned"

IsZeroVector(vec) == \A i \in 1..Len(vec.num) : ~vec.num[i].nan /\ vec.num[i].val = 0

\* Cosine similarity as section 4.3 defines it: 0 when a magnitude is zero.
GuardedCosine(vec1, vec2) ==
    IF IsZeroVector(vec1) \/ IsZeroVector(vec2) THEN ZeroScore
    ELSE calculateCosineSimilarity(vec1, vec2)

EmbeddedChunksOf(documentId) ==
    {i \in 1..Len(chunks) : chunks[i].documentId = documentId /\ chunks[i].embedding.present}
EmbeddedDocuments == {d \in 1..Len(documents) : EmbeddedChunksOf(d) # {}}
ChunkScore(i) == GuardedCosine(lastSearch.query, Plain(chunks[i].embedding.vector))
\* The largest similarity of a chunk of the document to the query.
IsMaximumOf(score, documentId) ==
    /\ \E i \in EmbeddedChunksOf(documentId) : ScoreEq(ChunkScore(i), score)
    /\ \A i \in EmbeddedChunksOf(documentId) : ScoreGeq(score, ChunkScore(i))

\* C4: the list storage.searchDocuments returns is sorted by score in
\* non-increasing order and holds no document identifier twice.
C4_SortedAndUnique ==
    SearchReturned =>
        LET r == lastSearch.result
        IN  /\ \A i \in 1..(Len(r) - 1) : ScoreGeq(r[i].score, r[i + 1].score)
            /\ \A i, j \in 1..Len(r) : i # j => r[i].documentId # r[j].documentId

C5_Min(a, b) == IF a < b THEN a ELSE b
C5_K == IF lastSearch.limit.nan \/ lastSearch.limit.val < 0 THEN 0 ELSE lastSearch.limit.val
\* C5: the score reported for a document is the maximum cosine similarity of
\* its embedded chunks to the query, and the list is the first k entries of
\* the per-document maxima in descending order: it has min(k, number of
\* embedded documents) entries and no document left out has a higher maximum
\* than a document listed.
C5_ScoreIsMaximumTopK ==
    SearchReturned =>
        LET r == lastSearch.result
            listed == {r[i].documentId : i \in 1..Len(r)}
        IN  /\ \A i \in 1..Len(r) : IsMaximumOf(r[i].score, r[i].documentId)
            /\ Len(r) = C5_Min(C5_K, Cardinality(EmbeddedDocuments))
            /\ \A d \in EmbeddedDocuments \ listed : \A i \in 1..Len(r) :
                  \A c \in EmbeddedChunksOf(d) : ScoreGeq(r[i].score, ChunkScore(c))

\* C6: storage.searchDocuments(queryVector, k) returns at most k entries; a
\* length is never negative, so for a negative or NaN k that is no entry.
C6_LengthAtMostK == SearchReturned => Len(lastSearch.result) <= C5_K

C7_FirstChunkWithScore(entry) ==
    CHOOSE i \in EmbeddedChunksOf(entry.documentId) :
        /\ ScoreEq(calculateCosineSimilarity(lastSearch.query, Plain(chunks[i].embedding.vector)),
                   entry.score)
        /\ \A j \in EmbeddedChunksOf(entry.documentId) :
              ScoreEq(calculateCosineSimilarity(lastSearch.query, Plain(chunks[j].embedding.vector)),
                      entry.score) => i <= j
C7_Tied(r, i, j) == i < j /\ ScoreEq(r[i].score, r[j].score)
\* C7: documents with equal scores appear in insertion order: of two listed
\* documents with the same score, the one listed first has the earlier
\* chunk of that score.
C7_TiesInInsertionOrder ==
    SearchReturned =>
        LET r == lastSearch.result
        IN  \A i, j \in 1..Len(r) :
                C7_Tied(r, i, j) => C7_FirstChunkWithScore(r[i]) < C7_FirstChunkWithScore(r[j])
C7_Witness ==
    /\ SearchReturned
    /\ \E i, j \in 1..Len(lastSearch.result) :
          /\ C7_Tied(lastSearch.result, i, j)
          /\ lastSearch.result[i].documentId > lastSearch.result[j].documentId

\* C8: a similarity with a zero-magnitude query vector is the score 0.
C8_ZeroMagnitudeScoresZero ==
    (SearchReturned /\ IsZeroVector(lastSearch.query)) =>
        \A i \in 1..Len(lastSearch.result) : ScoreEq(lastSearch.result[i].score, ZeroScore)

\* C9: when the similarity throws on a dimension mismatch, the search and
\* related-documents entry points end by raising, not by returning a list.
C9_MismatchIsRaised == lastSearch.outcome = "threw" => lastOp.outcome = "raised"

\* C10: findRelatedDocuments(docId, k) never lists docId itself.
C10_ExcludesSource ==
    lastOp.op = "related" =>
        \A i \in 1..Len(lastOp.result) : lastOp.result[i] # lastOp.documentId
C10_Witness ==
    /\ lastOp.op = "related"
    /\ Len(lastOp.result) > 0
    /\ SearchReturned
    /\ \E i \in 1..Len(lastSearch.result) : lastSearch.result[i].documentId = lastOp.documentId


(***************************************************************************)
(* Claims about related documents, checked under SpecRelated.              *)
(***************************************************************************)
C11_K == IF lastOp.limit.nan \/ lastOp.limit.val < 0 THEN 0 ELSE lastOp.limit.val
\* The full per-document ranking for the mean vector, the source removed.
C11_Others ==
    LET full == UniqueResults(chunks, lastSearch.query).list
        others == SelectSeq(full, LAMBDA r : r.documentId # lastOp.documentId)
    IN  [k \in 1..Len(others) |-> others[k].documentId]
\* C11: findRelatedDocuments(docId, limit) returns at most limit documents,
\* and they are the first limit entries of the full per-document ranking for
\* the mean vector with the source document removed.
C11_FirstLimitOfRanking ==
    (lastOp.op = "related" /\ SearchReturned) =>
        /\ Len(lastOp.result) <= C11_K
        /\ lastOp.result = SubSeq(C11_Others, 1, C5_Min(C11_K, Len(C11_Others)))

(***************************************************************************)
(* Claims about the chunker, checked under SpecChunker.                    *)
(***************************************************************************)
C12_Returned == chunker.pc = "returned"
\* A chunk that is one paragraph of the input, itself longer than the maximum.
C12_IsOversizedParagraph(chunk) ==
    /\ Len(chunk) > chunker.maxChunkSize
    /\ \E k \in 1..Len(SplitParagraphs(chunker.text)) : SplitParagraphs(chunker.text)[k] = chunk
\* C12: every chunk splitIntoChunks(text, max) returns is a non-empty
\* string, and every chunk other than a single paragraph longer than max is
\* at most max characters long, separators included.
C12_ChunksWithinMax ==
    C12_Returned =>
        \A k \in 1..Len(chunker.chunks) :
            /\ Len(chunker.chunks[k]) > 0
            /\ C12_IsOversizedParagraph(chunker.chunks[k])
                  \/ Len(chunker.chunks[k]) <= chunker.maxChunkSize

C13_NonEmpty(paragraphs) == SelectSeq(paragraphs, LAMBDA par : par # <<>>)
RECURSIVE C13_ParagraphsFrom(_, _)
C13_ParagraphsFrom(list, k) ==
    IF k > Len(list) THEN <<>>
    ELSE C13_NonEmpty(SplitParagraphs(list[k])) \o C13_ParagraphsFrom(list, k + 1)
\* C13: the paragraphs of the chunks, taken chunk by chunk in order, are the
\* non-empty paragraphs of the input in order: none is lost, duplicated,
\* reordered or split across chunks.
C13_RoundTrip ==
    C12_Returned =>
        C13_ParagraphsFrom(chunker.chunks, 1) = C13_NonEmpty(SplitParagraphs(chunker.text))
C13_Witness ==
    /\ C12_Returned
    /\ Len(chunker.chunks) >= 2
    /\ Len(C13_NonEmpty(SplitParagraphs(chunker.text))) > Len(chunker.chunks)

(***************************************************************************)
(* Claims about ingestion and the search orchestrator, checked under       *)
(* SpecPipeline; the claim about identifiers is checked under SpecStore.   *)
(***************************************************************************)
C14_DocumentIds ==
    {documents[k].id : k \in 1..Len(documents)} \cup {chunks[k].documentId : k \in 1..Len(chunks)}
\* C14: the chunkIndex values stored for a document are 0..n-1 in the order
\* of storing, with no gap and no repeated ordinal, also while uploads are
\* interleaved and after a chunk loop was cut short by a failure.
C14_OrdinalsContiguous ==
    \A d \in C14_DocumentIds :
        LET own == getChunksByDocument(d)
        IN  \A k \in 1..Len(own) : own[k].chunkIndex = k - 1
C14_Witness ==
    \E a, b \in JobIds :
        /\ jobs[a].pc = "returned" /\ jobs[a].failedAt = {1}
        /\ jobs[b].pc = "returned" /\ jobs[b].failedAt = {} /\ Len(jobs[b].chunks) = 2
        /\ Len(chunks) = 3
        /\ chunks[2].documentId # chunks[1].documentId
        /\ chunks[3].documentId # chunks[2].documentId

\* C15: every chunk of the index refers to a document record that exists,
\* and no search has met a candidate whose document was missing.
C15_DocumentBeforeChunks ==
    /\ \A k \in 1..Len(chunks) : getDocument(chunks[k].documentId) # Undefined
    /\ \A q \in QueryIds : ~queries[q].sawMissing
C15_Witness ==
    \E q \in QueryIds, j \in JobIds :
        /\ queries[q].pc = "returned"
        /\ jobs[j].pc = "embedding" /\ jobs[j].i = 1
        /\ \E k \in 1..Len(queries[q].result) :
              queries[q].result[k].documentId = jobs[j].documentId

C16_Ended(j) == jobs[j].pc \in {"returned", "raised"} /\ jobs[j].created = 1
C16_StoredAt(j, k) ==
    {c \in 1..Len(chunks) :
        chunks[c].documentId = jobs[j].documentId /\ chunks[c].chunkIndex = k}
\* C16: when embedding or storing has failed for the chunk at position k of
\* a document, the call still stores every chunk of the document, the chunk
\* at k without an embedding, and returns the document identifier.
C16_PartialFailurePolicy ==
    \A j \in JobIds :
        (C16_Ended(j) /\ jobs[j].fallbackAt \cup jobs[j].failedAt # {}) =>
            /\ jobs[j].pc = "returned" /\ jobs[j].result = jobs[j].documentId
            /\ \A k \in 0..(Len(jobs[j].chunks) - 1) : C16_StoredAt(j, k) # {}
            /\ \A k \in jobs[j].fallbackAt \cup jobs[j].failedAt :
                  \A c \in C16_StoredAt(j, k) : ~chunks[c].embedding.present

\* C17: a processDocument call that got past extraction and createDocument
\* has created exactly one Document record and returns its identifier,
\* whether or not the chunk loop failed; a call whose extraction or
\* createDocument failed has created no Document and no Chunk and raises.
C17_OneDocumentPerCall ==
    /\ \A j \in JobIds :
          /\ jobs[j].pc \in {"idle", "extracting"} => jobs[j].created = 0
          /\ jobs[j].pc = "embedding" => jobs[j].created = 1
          /\ jobs[j].pc = "returned" =>
                /\ jobs[j].created = 1
                /\ jobs[j].result = jobs[j].documentId
                /\ getDocument(jobs[j].result) # Undefined
          /\ jobs[j].pc = "raised" => jobs[j].created = 0 /\ jobs[j].documentId = 0
    /\ \A a, b \in JobIds :
          (a # b /\ jobs[a].created = 1 /\ jobs[b].created = 1)
              => jobs[a].documentId # jobs[b].documentId
    /\ Len(documents) = Cardinality({j \in JobIds : jobs[j].created = 1})
    /\ \A c \in 1..Len(chunks) :
          \E j \in JobIds : jobs[j].created = 1 /\ jobs[j].documentId = chunks[c].documentId
C17_Witness ==
    \E a, b \in JobIds :
        /\ jobs[a].pc = "returned" /\ jobs[a].failedAt # {}
        /\ jobs[b].pc = "raised"

C18_Increasing(map) == \A a, b \in 1..Len(map) : a < b => map[a].id < map[b].id
C18_Below(map, counter) ==
    /\ \A a \in 1..Len(map) : map[a].id < counter
    /\ Len(map) = counter - 1
\* C18: identifiers are unique and monotonically assigned: in each of the
\* three Maps a record created later has a strictly larger identifier, no
\* record has been overwritten, and every identifier is below its counter.
C18_IdentifiersMonotonic ==
    /\ C18_Increasing(documents) /\ C18_Below(documents, nextDocumentId)
    /\ C18_Increasing(chunks) /\ C18_Below(chunks, nextChunkId)
    /\ C18_Increasing(searchHistory) /\ C18_Below(searchHistory, nextSearchHistoryId)
C18_Witness ==
    /\ Len(documents) >= 2 /\ Len(chunks) >= 2 /\ Len(searchHistory) >= 2
    /\ chunks[1].documentId # chunks[2].documentId

C19_Done(q) == queries[q].pc = "returned" /\ queries[q].snippetFailed # {}
\* C19: when producing the snippet fails for a candidate, the candidate is
\* still returned, with its score and the placeholder snippet, and every
\* other candidate is returned with its score and its own snippet.
C19_SnippetFailureKeepsCandidate ==
    \A q \in QueryIds :
        C19_Done(q) =>
            /\ Len(queries[q].result) = Len(queries[q].candidates)
            /\ \A k \in 1..Len(queries[q].candidates) :
                  \E r \in 1..Len(queries[q].result) :
                      /\ queries[q].result[r].documentId = queries[q].candidates[k].documentId
                      /\ queries[q].result[r].score = queries[q].candidates[k].score
                      /\ (queries[q].result[r].snippet = "unavailable")
                            <=> (queries[q].candidates[k].documentId \in queries[q].snippetFailed)
C19_Witness ==
    \E q \in QueryIds :
        /\ C19_Done(q)
        /\ Len(queries[q].candidates) = 2
        /\ Cardinality(queries[q].snippetFailed) = 1

\* C20: a search during which createSearchHistory failed returns the list
\* it had built (the one it returns when history recording succeeds) and
\* raises no error.
C20_HistoryFailureIsHarmless ==
    \A q \in QueryIds :
        queries[q].historyFailed =>
            /\ queries[q].pc = "returned"
            /\ queries[q].result = queries[q].valid

(***************************************************************************)
(* Claims about the search history, checked under SpecIndex.               *)
(***************************************************************************)
\* C21: every search that returns to its caller appends exactly one search
\* record, for the calling user and with the returned list of document
\* identifiers in the same order, and leaves the earlier records as they
\* were.
C21_OneRecordPerSearch ==
    [][(lastOp.op = "none" /\ lastOp'.op = "search" /\ lastOp'.outcome = "returned")
          => searchHistory' = Append(searchHistory,
                 SearchHistoryRecord(nextSearchHistoryId, DemoUser, lastOp'.result))]_vars

(***************************************************************************)
(* Claims about ownership, checked under SpecOwners.                       *)
(***************************************************************************)
\* C22: the list a search of a user returns holds only documents that this
\* user uploaded.
C22_OnlyOwnDocuments ==
    (lastOp.op = "search" /\ lastOp.outcome = "returned") =>
        \A k \in 1..Len(lastOp.result) :
            getDocument(lastOp.result[k]).uploadedBy = DemoUser

(***************************************************************************)
(* Claims about the entry points' errors, checked under SpecPipeline.      *)
(***************************************************************************)
\* C23: a search ends by returning a list, never by raising, whatever the
\* index holds, whichever path produced the embedding and whether or not
\* the history record could be written.
C23_SearchNeverRaises ==
    \A q \in QueryIds : queries[q].pc # "raised"

(***************************************************************************)
(* Claims about the snippet, checked under SpecSnippet.                    *)
(***************************************************************************)
C25_Selected == snippetCall.chunks[snippetCall.best]
C25_EndsWithEllipsis(text) ==
    Len(text) >= Len(Ellipsis) /\ SubSeq(text, Len(text) - Len(Ellipsis) + 1, Len(text)) = Ellipsis
\* C25: the snippet is at most 200 characters long; for a selected chunk of
\* more than 200 characters it ends with the ellipsis marker, and for one
\* of 200 characters or fewer it is the chunk text unchanged.
C25_SnippetLength ==
    snippetCall.pc = "returned" =>
        /\ Len(snippetCall.result) <= 200
        /\ snippetCall.best > 0 =>
              IF Len(C25_Selected) > 200
              THEN C25_EndsWithEllipsis(snippetCall.result)
              ELSE snippetCall.result = C25_Selected
C25_Witness ==
    /\ snippetCall.pc = "returned"
    /\ Len(snippetCall.chunks) = 2
    /\ snippetCall.best = 2
    /\ Len(C25_Selected) = 201
    /\ Len(snippetCall.result) = 200

C26_Terms == {QueryTerms(snippetCall.query)[k] : k \in 1..Len(QueryTerms(snippetCall.query))}
C26_Score(k) ==
    Cardinality({t \in C26_Terms : Includes(LowerCase(snippetCall.chunks[k]), t)})
\* C26: the chunk selected has the highest number of distinct query terms
\* occurring in its lowercased text, a term repeated in the query counting
\* once, and is the earliest chunk with that number (the first chunk when
\* every number is 0).
C26_SelectsHighestDistinctScore ==
    (snippetCall.pc = "returned" /\ snippetCall.best > 0) =>
        \A k \in 1..Len(snippetCall.chunks) :
            \/ C26_Score(k) < C26_Score(snippetCall.best)
            \/ C26_Score(k) = C26_Score(snippetCall.best) /\ snippetCall.best <= k

(***************************************************************************)
(* Claims about the generators' numerics, checked under SpecGenerators.    *)
(***************************************************************************)
C27_Local == generatorCall.pc = "returned" /\ generatorCall.generator = "local"
\* C27: for every component of the local generator's vector, the part of
\* the digest it is computed from has exactly two hexadecimal characters,
\* a value in 0..255, and the component before normalization lies in
\* [-1, 1].
C27_ComponentsInRange ==
    C27_Local =>
        \A k \in 1..LocalDim :
            /\ Len(generatorCall.parts[k]) = 2
            /\ ParseHex(generatorCall.parts[k]) \in 0..255
            /\ generatorCall.values.num[k] >= -generatorCall.values.den
            /\ generatorCall.values.num[k] <= generatorCall.values.den

C29_DimensionsAgree ==
    lastSearch.outcome # "none" =>
        /\ lastSearch.outcome # "threw"
        /\ \A i \in 1..Len(chunks) :
              chunks[i].embedding.present =>
                  Len(chunks[i].embedding.vector) = Len(lastSearch.query.num)

(***************************************************************************)
(* Claims about the latch and the other services, checked under            *)
(* SpecProvider.                                                           *)
(***************************************************************************)
\* C30: the latch is set only when an embedding request has met a quota
\* error: a quota error met by generateSummary, extractKeyPoints or
\* generateAnswer leaves it unset, and an embedding call that starts after
\* it still invokes the provider.
C30_LatchOnlyFromEmbedding ==
    /\ hasQuotaError => \E c \in CallIds : C24_QuotaHandled(c)
    /\ \A c \in CallIds :
          (calls[c].pc # "idle" /\ ~calls[c].invoked) =>
              \E d \in CallIds : d # c /\ C24_QuotaHandled(d)
====
